---- MODULE Spec2Model ----
(***************************************************************************)
(* A model of pyrho's charge-density aggregate                             *)
(* (src/src/pyrho/core/charge_density.py): class ChargeDensity with its    *)
(* construction-time normalization, reorient_axis, get_transformed,        *)
(* get_reshaped and to_Chgcar, and the module function multiply_aug.       *)
(*                                                                         *)
(* Conventions of the model                                                *)
(*  - A floating-point number is a record [m, e] standing for m * 2^e      *)
(*    with a Precision-bit significand, rounded to nearest, ties to even   *)
(*    (IEEE 754 arithmetic at a reduced width).  Only non-negative data    *)
(*    is modelled.                                                         *)
(*  - A grid array is a constant field [shape, val]: numpy's elementwise   *)
(*    operations act on val.                                               *)
(*  - A matrix is a 3-tuple of 3-tuples of integers counted in millionths  *)
(*    (Micro), so that numpy's comparison tolerance can be computed.       *)
(*  - Cells are orthorhombic: a structure keeps its three lengths, whether *)
(*    its basis is in the canonical orientation, one site coordinate (in   *)
(*    halves of the first basis vector) and its number of sites.           *)
(*  - Structure objects live in the heap structs; an aggregate holds the   *)
(*    index of its structure, so that aliasing is observable.              *)
(***************************************************************************)
EXTENDS Integers, Sequences, FiniteSets, TLC

VARIABLES structs, aggs, given, call, ncalls, aug

vars == <<structs, aggs, given, call, ncalls, aug>>

(***************************************************************************)
(* Bounds of the model.                                                    *)
(***************************************************************************)
Precision == 4
MaxCalls == 3
MaxFactor == 2
MaxLines == 4

Micro == 1000 * 1000

Abs(x) == IF x < 0 THEN -x ELSE x

Max(x, y) == IF x >= y THEN x ELSE y

RECURSIVE Pow2(_)
Pow2(n) == IF n = 0 THEN 1 ELSE 2 * Pow2(n - 1)

(***************************************************************************)
(* Floating-point arithmetic.                                              *)
(***************************************************************************)
FZero == [m |-> 0, e |-> 0]

\* n / d rounded to the nearest integer, ties to the even one (n >= 0, d > 0).
RoundHalfEven(n, d) ==
    LET q == n \div d
        r == n % d
    IN  IF 2 * r > d \/ (2 * r = d /\ q % 2 = 1) THEN q + 1 ELSE q

\* The float nearest to (n / d) * 2^e.
RECURSIVE FRound(_, _, _)
FRound(n, d, e) ==
    IF n = 0 THEN FZero
    ELSE IF n >= d * Pow2(Precision) THEN FRound(n, 2 * d, e + 1)
    ELSE IF n < d * Pow2(Precision - 1) THEN FRound(2 * n, d, e - 1)
    ELSE LET m == RoundHalfEven(n, d)
         IN  IF m = Pow2(Precision)
             THEN [m |-> Pow2(Precision - 1), e |-> e + 1]
             ELSE [m |-> m, e |-> e]

Fl(n) == FRound(n, 1, 0)

FDiv(x, y) == FRound(x.m, y.m, x.e - y.e)

FMul(x, y) == FRound(x.m * y.m, 1, x.e + y.e)

\* |x - y| is at most one unit in the last place of y, which is 2^(y.e)
WithinUlp(x, y) ==
    IF x.e >= y.e THEN Abs(x.m * Pow2(x.e - y.e) - y.m) <= 1
    ELSE Abs(x.m - y.m * Pow2(y.e - x.e)) <= Pow2(y.e - x.e)

(***************************************************************************)
(* numpy helpers.                                                          *)
(***************************************************************************)
Rtol == 100000
AtolScaled == 1000
DiffCap == 21 * 1000

\* One element of np.allclose(a, b): |a - b| <= atol + rtol * |b| with the
\* defaults rtol = 1e-5, atol = 1e-8, on numbers counted in millionths.
\* Rtol is 1 / rtol and AtolScaled is atol / rtol in millionths.  A difference
\* above DiffCap cannot pass for any 32-bit b, and is cut off before the product.
IsClose(a, b) ==
    LET d == Abs(a - b)
    IN  d <= DiffCap /\ d * Rtol <= AtolScaled + Abs(b)

allclose(A, B) == \A i \in 1..3 : \A j \in 1..3 : IsClose(A[i][j], B[i][j])

\* np.round on a matrix: every entry to the nearest integer, ties to even.
npround(A) == [i \in 1..3 |-> [j \in 1..3 |-> RoundHalfEven(A[i][j], Micro)]]

ArrDiv(arr, v) == [arr EXCEPT !.val = FDiv(@, v)]

ArrMul(arr, v) == [arr EXCEPT !.val = FMul(@, v)]

(***************************************************************************)
(* The structure library (pymatgen), at its interface.                     *)
(***************************************************************************)
\* lattice.matrix in millionths: the canonical basis is diagonal, the other
\* orientation has the same vectors along permuted axes.
LatticeMatrix(s) ==
    LET a == s.abc[1] * Micro
        b == s.abc[2] * Micro
        c == s.abc[3] * Micro
    IN  IF s.canon THEN <<<<a, 0, 0>>, <<0, b, 0>>, <<0, 0, c>>>>
        ELSE <<<<0, a, 0>>, <<0, 0, b>>, <<c, 0, 0>>>>

CellVolume(s) == s.abc[1] * s.abc[2] * s.abc[3]

\* structure.volume, a float
volume(s) == Fl(CellVolume(s))

(***************************************************************************)
(* Normalization schemes: None, or a string (a sequence of characters).    *)
(***************************************************************************)
PyNone == [isNone |-> TRUE, s |-> <<>>]

Str(s) == [isNone |-> FALSE, s |-> s]

lower(c) == CASE c = "V" -> "v" [] c = "N" -> "n" [] c = "X" -> "x" [] OTHER -> c

Ok(v) == [err |-> "ok", val |-> v]

Raise(e) == [err |-> e, val |-> FZero]

_normalize_data_nodiv(structure, normalization, grid_data) ==
    IF normalization.isNone THEN Ok(grid_data)
    ELSE IF Len(normalization.s) = 0 THEN Raise("IndexError")
    ELSE IF lower(normalization.s[1]) \in {"n", "v"} THEN Ok(grid_data)
    ELSE Raise("NotImplementedError")

_normalize_data(structure, normalization, grid_data) ==
    IF normalization.isNone THEN Ok(grid_data)
    ELSE IF Len(normalization.s) = 0 THEN Raise("IndexError")
    ELSE IF lower(normalization.s[1]) = "n" THEN Ok(grid_data)
    ELSE IF lower(normalization.s[1]) = "v" THEN Ok(ArrDiv(grid_data, volume(structure)))
    ELSE Raise("NotImplementedError")

_scale_data(structure, data, normalization) ==
    IF normalization.isNone THEN Ok(data)
    ELSE IF Len(normalization.s) = 0 THEN Raise("IndexError")
    ELSE IF lower(normalization.s[1]) = "n" THEN Ok(data)
    ELSE IF lower(normalization.s[1]) = "v" THEN Ok(ArrMul(data, volume(structure)))
    ELSE Raise("NotImplementedError")

(***************************************************************************)
(* Construction.  A pgrids mapping is a sequence of [k, v] entries with    *)
(* distinct keys, in insertion order.                                      *)
(***************************************************************************)
LatticesIdentical_first(pgrids, structure) ==
    \A i \in 1..Len(pgrids) : allclose(pgrids[1].v.lattice, pgrids[i].v.lattice)

\* all(np.allclose(self.structure.lattice, lattice) for lattice in lattices)
LatticesIdentical(pgrids, structure) ==
    \A i \in 1..Len(pgrids) : allclose(LatticeMatrix(structure), pgrids[i].v.lattice)

\* for k, v in self.pgrids.items(): self.pgrids[k] = self._normalize_data(v.grid_data)
RECURSIVE NormalizeLoop(_, _, _, _)
NormalizeLoop(pgrids, i, structure, normalization) ==
    IF i > Len(pgrids) THEN [err |-> "ok", pgrids |-> pgrids]
    ELSE LET r == _normalize_data(structure, normalization, pgrids[i].v.grid_data)
         IN  IF r.err # "ok" THEN [err |-> r.err, pgrids |-> pgrids]
             ELSE NormalizeLoop([pgrids EXCEPT ![i] = [k |-> pgrids[i].k, v |-> r.val]],
                                i + 1, structure, normalization)

\* The mapping is the caller's own object: what is returned is the error and
\* the mapping as the call leaves it.
__post_init__(pgrids, structure, normalization) ==
    IF ~LatticesIdentical(pgrids, structure)
    THEN [err |-> "ValueError", pgrids |-> pgrids]
    ELSE NormalizeLoop(pgrids, 1, structure, normalization)

(***************************************************************************)
(* Export and reorientation.                                               *)
(***************************************************************************)
VaspScheme == Str(<<"v", "a", "s", "p">>)

NoneScheme == Str(<<"n", "o", "n", "e">>)

\* for k, v in self.pgrids.items(): data_dict[k] = self._scale_data(v, normalization="vasp")
RECURSIVE ScaleLoop(_, _, _, _)
ScaleLoop(pgrids, i, structure, normalization) ==
    IF i > Len(pgrids) THEN [err |-> "ok", data |-> pgrids]
    ELSE LET r == _scale_data(structure, pgrids[i].v, normalization)
         IN  IF r.err # "ok" THEN [err |-> r.err, data |-> <<>>]
             ELSE ScaleLoop([pgrids EXCEPT ![i] = [k |-> pgrids[i].k, v |-> r.val]],
                            i + 1, structure, normalization)

\* The Chgcar handed to the writer: a copy of the structure and the scaled data.
to_Chgcar(heap, self) ==
    LET struct == heap[self.structure]
        r == ScaleLoop(self.pgrids, 1, struct, VaspScheme)
    IN  [err |-> r.err, structure |-> struct, data |-> r.data]

\* Lattice.from_parameters(a, b, c, alpha, beta, gamma, vesta=True), assigned
\* to the structure in place: same lengths and angles, canonical basis.
reorient_axis(heap, self) ==
    [heap EXCEPT ![self.structure].canon = TRUE]

(***************************************************************************)
(* get_transformed.                                                        *)
(***************************************************************************)
StructCopy_alias(heap, id) == [heap |-> heap, id |-> id]

\* structure.copy(): a new object holding the same value
StructCopy(heap, id) == [heap |-> Append(heap, heap[id]), id |-> Len(heap) + 1]

\* structure.translate_sites(all sites, shift): in place, wrapped into the cell
translate_sites(heap, id, shift) == [heap EXCEPT ![id].frac = (@ + shift) % 2]

\* structure * sc_mat for a diagonal integer matrix: a new object
StructMul(heap, id, M) ==
    LET s == heap[id]
        t == [abc    |-> <<M[1][1] * s.abc[1], M[2][2] * s.abc[2], M[3][3] * s.abc[3]>>,
              canon  |-> s.canon,
              frac   |-> s.frac,
              nsites |-> s.nsites * M[1][1] * M[2][2] * M[3][3]]
    IN  [heap |-> Append(heap, t), id |-> Len(heap) + 1]

ScaleMicro(M) == [i \in 1..3 |-> [j \in 1..3 |-> M[i][j] * Micro]]

NotIntegerValued_exact(sc_mat) == ScaleMicro(npround(sc_mat)) # sc_mat

\* not np.allclose(np.round(sc_mat), sc_mat)
NotIntegerValued(sc_mat) == ~allclose(ScaleMicro(npround(sc_mat)), sc_mat)

\* The largest n >= from with n^3 * den <= num.
RECURSIVE CubeFloor(_, _, _)
CubeFloor(num, den, n) ==
    IF (n + 1) * (n + 1) * (n + 1) * den <= num THEN CubeFloor(num, den, n + 1) ELSE n

\* int(math.floor(max(l_ / mult, 1))) with ngrid = grid_out / volume and
\* mult = (prod(lengths) / ngrid) ** (1 / 3), so that (l_ / mult)^3 is
\* l_^3 * grid_out / (prod(lengths) * volume).  The cube root is taken in
\* floating point: when the exact quotient is an integer n >= 2 the computed
\* one may fall just below it, and does so (down) or not for the build at hand.
AxisCount(l, lengths, vol, n_out, down) ==
    LET num == l * l * l * n_out
        den == lengths[1] * lengths[2] * lengths[3] * vol
        n == CubeFloor(num, den, 0)
    IN  IF n >= 2 /\ n * n * n * den = num /\ down THEN n - 1 ELSE Max(n, 1)

IntGrid(n) == [isInt |-> TRUE, n |-> n, dims |-> <<>>]

ListGrid(d) == [isInt |-> FALSE, n |-> 0, dims |-> d]

\* lines 211-218; down is the set of lengths whose quotient is computed low.
OutputGrid(new_structure, grid_out, down) ==
    LET lengths == new_structure.abc
    IN  IF grid_out.isInt
        THEN [i \in 1..3 |-> AxisCount(lengths[i], lengths, CellVolume(new_structure),
                                       grid_out.n, lengths[i] \in down)]
        ELSE grid_out.dims

\* self.get_transformed_data(sc_mat, origin, grid_out, up_sample): every named
\* grid resampled onto grid_out; a constant field keeps its value.
get_transformed_data(self, sc_mat, origin, grid_out) ==
    IF \E i \in 1..3 : grid_out[i] <= 0 THEN [err |-> "ShapeError", rho |-> <<>>]
    ELSE [err |-> "ok",
          rho |-> [i \in 1..Len(self.pgrids) |->
                     [k |-> self.pgrids[i].k,
                      v |-> [shape |-> grid_out, val |-> self.pgrids[i].v.val]]]]

from_rho_renormalize(rho, new_structure, normalization) ==
    LET pg == [i \in 1..Len(rho) |->
                 [k |-> rho[i].k,
                  v |-> [lattice |-> LatticeMatrix(new_structure), grid_data |-> rho[i].v]]]
        r == __post_init__(pg, new_structure, normalization)
    IN  [err |-> r.err, pgrids |-> r.pgrids, normalization |-> normalization]

\* ChargeDensity.from_rho(new_rho, new_structure, self.normalization): the
\* aggregate is built from physical data with the scheme none, and then
\* declared to have the source's scheme.
from_rho(rho, new_structure, normalization) ==
    LET pg == [i \in 1..Len(rho) |->
                 [k |-> rho[i].k,
                  v |-> [lattice |-> LatticeMatrix(new_structure), grid_data |-> rho[i].v]]]
        r == __post_init__(pg, new_structure, NoneScheme)
    IN  [err |-> r.err, pgrids |-> r.pgrids, normalization |-> normalization]

get_transformed(heap, self, sc_mat, origin, grid_out, down) ==
    LET warned == NotIntegerValued(sc_mat)
        rounded == npround(sc_mat)
        c == StructCopy(heap, self.structure)
        h == translate_sites(c.heap, c.id, 0 - origin)
        m == StructMul(h, c.id, rounded)
        new_structure == m.heap[m.id]
        grid == OutputGrid(new_structure, grid_out, down)
        gm == rounded
        t == get_transformed_data(self, gm, origin, grid)
        f == from_rho(t.rho, new_structure, self.normalization)
    IN  [err       |-> IF t.err # "ok" THEN t.err ELSE f.err,
         warned    |-> warned,
         heap      |-> m.heap,
         new_id    |-> m.id,
         pgrids    |-> f.pgrids,
         normalization |-> f.normalization,
         sc_struct |-> rounded,
         sc_grid   |-> gm,
         grid_out  |-> grid]

\* get_reshaped passes its arguments on, by keyword.
get_reshaped(heap, self, sc_mat, grid_out, origin, down) ==
    get_transformed(heap, self, sc_mat, origin, grid_out, down)

(***************************************************************************)
(* multiply_aug.  A line is a sequence of characters; the words            *)
(* "augmentation" and "occupancies" are the single symbols "AUG" and "OCC".*)
(***************************************************************************)
IsSpace(c) == c \in {" ", "\n"}

CharLen(c) == CASE c = "AUG" -> 12 [] c = "OCC" -> 11 [] OTHER -> 1

RECURSIVE TextLen(_)
TextLen(t) == IF t = <<>> THEN 0 ELSE CharLen(Head(t)) + TextLen(Tail(t))

\* "augmentation" in ll
HasMarker(ll) == \E i \in 1..Len(ll) : ll[i] = "AUG"

\* ll.split(): the maximal runs of non-space characters
RECURSIVE SplitFrom(_, _, _, _)
SplitFrom(ll, i, cur, acc) ==
    IF i > Len(ll) THEN (IF cur = <<>> THEN acc ELSE Append(acc, cur))
    ELSE IF IsSpace(ll[i])
         THEN SplitFrom(ll, i + 1, <<>>, IF cur = <<>> THEN acc ELSE Append(acc, cur))
         ELSE SplitFrom(ll, i + 1, Append(cur, ll[i]), acc)

split(ll) == SplitFrom(ll, 1, <<>>, <<>>)

Digit(d) == CASE d = 0 -> "0" [] d = 1 -> "1" [] d = 2 -> "2" [] d = 3 -> "3"
              [] d = 4 -> "4" [] d = 5 -> "5" [] d = 6 -> "6" [] d = 7 -> "7"
              [] d = 8 -> "8" [] OTHER -> "9"

\* str(n) for n >= 0
RECURSIVE Digits(_)
Digits(n) == IF n < 10 THEN <<Digit(n)>> ELSE Append(Digits(n \div 10), Digit(n % 10))

\* f"{t:>4}": spaces on the left up to a width of 4, none when t is wider
RECURSIVE PadLeft(_, _)
PadLeft(t, width) == IF TextLen(t) >= width THEN t ELSE PadLeft(<<" ">> \o t, width)

\* f"augmentation occupancies{cnt:>4}{last:>4}\n"
Header(cnt, last) ==
    <<"AUG", " ", "OCC">> \o PadLeft(Digits(cnt), 4) \o PadLeft(last, 4) \o <<"\n">>

\* for _ in range(factor): cnt += 1; cur_block[0] = ...; res.extend(cur_block)
RECURSIVE EmitBlock(_, _, _, _)
EmitBlock(res, cur_block, cnt, left) ==
    IF left = 0 THEN [err |-> "ok", res |-> res, cnt |-> cnt]
    ELSE IF cur_block = <<>> \/ split(cur_block[1]) = <<>>
         THEN [err |-> "IndexError", res |-> res, cnt |-> cnt]
    ELSE LET fields == split(cur_block[1])
             blk == [cur_block EXCEPT ![1] = Header(cnt + 1, fields[Len(fields)])]
         IN  EmitBlock(res \o blk, blk, cnt + 1, left - 1)

\* the for loop over data_aug, and its else clause
RECURSIVE AugLoop(_, _, _, _, _, _)
AugLoop(data_aug, i, factor, res, cur_block, cnt) ==
    IF i > Len(data_aug)
    THEN LET r == EmitBlock(res, cur_block, cnt, factor)
         IN  [err |-> r.err, res |-> IF r.err = "ok" THEN r.res ELSE <<>>]
    ELSE IF HasMarker(data_aug[i])
         THEN IF cur_block # <<>>
              THEN LET r == EmitBlock(res, cur_block, cnt, factor)
                   IN  IF r.err # "ok" THEN [err |-> r.err, res |-> <<>>]
                       ELSE AugLoop(data_aug, i + 1, factor, r.res, <<data_aug[i]>>, r.cnt)
              ELSE AugLoop(data_aug, i + 1, factor, res, <<data_aug[i]>>, cnt)
         ELSE AugLoop(data_aug, i + 1, factor, res, Append(cur_block, data_aug[i]), cnt)

multiply_aug(data_aug, factor) == AugLoop(data_aug, 1, factor, <<>>, <<>>, 0)

(***************************************************************************)
(* State.                                                                  *)
(*   structs  the heap of structure objects                                *)
(*   aggs     the aggregates built so far: aggs[1] is the constructed one, *)
(*            the others were derived by get_transformed / get_reshaped    *)
(*   given    the arguments the constructor was called with                *)
(*   call     the last call and what it returned                           *)
(*   ncalls   the number of calls made                                     *)
(*   aug      the call of multiply_aug                                     *)
(***************************************************************************)
NoMatrix == <<<<0, 0, 0>>, <<0, 0, 0>>, <<0, 0, 0>>>>

NoCall ==
    [op |-> "init", err |-> "ok", src |-> 0, new |-> 0,
     pgrids_after |-> <<>>, exported |-> <<>>,
     warned |-> FALSE, sc_mat |-> NoMatrix, sc_struct |-> NoMatrix, sc_grid |-> NoMatrix,
     origin |-> 0, grid_arg |-> ListGrid(<<1, 1, 1>>), grid_out |-> <<1, 1, 1>>]

NoGiven == [pgrids |-> <<>>, structure |-> <<>>, normalization |-> PyNone]

AugIdle == [pc |-> "idle", data_aug |-> <<>>, factor |-> 1, err |-> "ok", res |-> <<>>]

(***************************************************************************)
(* Inputs.                                                                 *)
(***************************************************************************)
Names == {"total", "diff"}

Struct(abc, canon, frac) == [abc |-> abc, canon |-> canon, frac |-> frac, nsites |-> 1]

Field(n) == [shape |-> <<2, 2, 2>>, val |-> Fl(n)]

PGrid(lattice, grid_data) == [lattice |-> lattice, grid_data |-> grid_data]

Shifted(M, d) == [i \in 1..3 |-> [j \in 1..3 |-> IF M[i][j] # 0 THEN M[i][j] + d ELSE 0]]

\* The lattices a grid may come with: the structure's own, and when wide one
\* off by 1e-6 (inside the tolerance), one off by 1e-4 and one scaled by 1.01.
LatticeVariants(s, wide) ==
    LET M == LatticeMatrix(s)
    IN  IF wide
        THEN {M, Shifted(M, 1), Shifted(M, 100),
              [i \in 1..3 |-> [j \in 1..3 |-> (M[i][j] * 101) \div 100]]}
        ELSE {M}

Mappings(PG) ==
    {<<>>}
    \cup {<<[k |-> n, v |-> p]>> : n \in Names, p \in PG}
    \cup {<<[k |-> n[1], v |-> p], [k |-> n[2], v |-> q]>> :
            n \in {m \in Names \X Names : m[1] # m[2]}, p \in PG, q \in PG}

Diag(a, b, c) == <<<<a, 0, 0>>, <<0, b, 0>>, <<0, 0, c>>>>

Recognized == {PyNone, VaspScheme, Str(<<"V">>), NoneScheme, Str(<<"N", "o">>)}

Unrecognized == {Str(<<"x", "y", "z">>), Str(<<"a", "v">>), Str(<<"X", "n">>)}

EmptyName == Str(<<>>)

SmallStructs ==
    {Struct(<<1, 1, 1>>, FALSE, 0), Struct(<<3, 3, 1>>, FALSE, 0), Struct(<<1, 2, 5>>, TRUE, 0)}

SmallMats == {ScaleMicro(Diag(1, 1, 1)), ScaleMicro(Diag(2, 1, 1))}

CubicStructs ==
    {Struct(<<1, 1, 1>>, FALSE, 0), Struct(<<2, 2, 2>>, FALSE, 1), Struct(<<1, 2, 3>>, TRUE, 1)}

\* Entries of sc_mat, in millionths: 1, 1.000001, 1.5, 2 and 2.5.
DiagEntries == {1000000, 1000001, 1500000, 2000000, 2500000}

WideMats ==
    LET D == {Diag(a, b, c) : a \in DiagEntries, b \in DiagEntries, c \in DiagEntries}
    IN  D \cup {[M EXCEPT ![1][2] = 3] : M \in D}
          \cup {[M EXCEPT ![3][1] = 400000] : M \in D}

WideGrids ==
    {IntGrid(8), IntGrid(27), IntGrid(64), ListGrid(<<2, 2, 2>>), ListGrid(<<0, 2, 2>>)}

(***************************************************************************)
(* Actions: one per call.                                                  *)
(***************************************************************************)
\* ChargeDensity(pgrids, structure, normalization)
Construct(ST, wide, DATA, SCH) ==
    /\ call.op = "init"
    /\ aug.pc = "idle"
    /\ \E st \in ST, n \in SCH :
         \E pg \in Mappings({PGrid(l, Field(d)) : l \in LatticeVariants(st, wide), d \in DATA}) :
           LET r == __post_init__(pg, st, n)
               id == Len(structs) + 1
           IN  /\ structs' = IF r.err = "ok" THEN Append(structs, st) ELSE structs
               /\ aggs' = IF r.err = "ok"
                          THEN Append(aggs, [pgrids |-> r.pgrids, structure |-> id,
                                             normalization |-> n])
                          ELSE aggs
               /\ given' = [pgrids |-> pg, structure |-> st, normalization |-> n]
               /\ call' = [NoCall EXCEPT !.op = "ChargeDensity", !.err = r.err,
                                         !.new = IF r.err = "ok" THEN 1 ELSE 0,
                                         !.pgrids_after = r.pgrids]
               /\ ncalls' = ncalls + 1
               /\ UNCHANGED aug

Reorient ==
    /\ ncalls < MaxCalls
    /\ \E i \in 1..Len(aggs) :
         /\ structs' = reorient_axis(structs, aggs[i])
         /\ call' = [NoCall EXCEPT !.op = "reorient_axis", !.src = i]
         /\ ncalls' = ncalls + 1
         /\ UNCHANGED <<aggs, given, aug>>

Export ==
    /\ ncalls < MaxCalls
    /\ \E i \in 1..Len(aggs) :
         LET r == to_Chgcar(structs, aggs[i])
         IN  /\ call' = [NoCall EXCEPT !.op = "to_Chgcar", !.src = i, !.err = r.err,
                                       !.exported = r.data]
             /\ ncalls' = ncalls + 1
             /\ UNCHANGED <<structs, aggs, given, aug>>

\* first: the call is the one that follows construction.
\* What a call of get_transformed or get_reshaped leaves behind: the objects
\* that existed before, the new structure and aggregate when it returned one.
Transformed(op, i, r, M, o, g) ==
    LET n == Len(structs)
        kept == SubSeq(r.heap, 1, n)
    IN  /\ structs' = IF r.err = "ok" THEN Append(kept, r.heap[r.new_id]) ELSE kept
        /\ aggs' = IF r.err = "ok"
                   THEN Append(aggs, [pgrids |-> r.pgrids, structure |-> n + 1,
                                      normalization |-> r.normalization])
                   ELSE aggs
        /\ call' = [NoCall EXCEPT !.op = op, !.src = i, !.err = r.err,
                                  !.new = IF r.err = "ok" THEN Len(aggs) + 1 ELSE 0,
                                  !.warned = r.warned, !.sc_mat = M,
                                  !.sc_struct = r.sc_struct, !.sc_grid = r.sc_grid,
                                  !.origin = o, !.grid_arg = g, !.grid_out = r.grid_out]
        /\ ncalls' = ncalls + 1
        /\ UNCHANGED <<given, aug>>

\* The lengths of the cell that sc_mat makes of aggregate i's cell.
NewLengths(i, M) ==
    LET s == structs[aggs[i].structure]
    IN  {npround(M)[j][j] * s.abc[j] : j \in 1..3}

GetTransformed(first, MATS, ORIGINS, GRIDS) ==
    /\ ncalls < MaxCalls
    /\ first => call.op = "ChargeDensity"
    /\ \E i \in 1..Len(aggs), M \in MATS, o \in ORIGINS, g \in GRIDS :
         \E down \in (IF g.isInt THEN SUBSET NewLengths(i, M) ELSE {{}}) :
           Transformed("get_transformed", i,
                       get_transformed(structs, aggs[i], M, o, g, down), M, o, g)

GetReshaped(first, MATS, ORIGINS, GRIDS) ==
    /\ ncalls < MaxCalls
    /\ first => call.op = "ChargeDensity"
    /\ \E i \in 1..Len(aggs), M \in MATS, o \in ORIGINS, g \in GRIDS :
         \E down \in (IF g.isInt THEN SUBSET NewLengths(i, M) ELSE {{}}) :
           Transformed("get_reshaped", i,
                       get_reshaped(structs, aggs[i], M, g, o, down), M, o, g)

MultiplyAug ==
    /\ aug.pc = "start"
    /\ LET r == multiply_aug(aug.data_aug, aug.factor)
       IN  aug' = [aug EXCEPT !.pc = "done", !.err = r.err, !.res = r.res]
    /\ UNCHANGED <<structs, aggs, given, call, ncalls>>

(***************************************************************************)
(* Specifications.                                                         *)
(***************************************************************************)
InitCD ==
    /\ structs = <<>>
    /\ aggs = <<>>
    /\ given = NoGiven
    /\ call = NoCall
    /\ ncalls = 0
    /\ aug = AugIdle

\* The life of one aggregate and of those derived from it.
Next ==
    \/ Construct(SmallStructs, FALSE, {13}, Recognized)
    \/ Reorient
    \/ GetTransformed(FALSE, SmallMats, {0}, {ListGrid(<<2, 2, 2>>)})
    \/ GetReshaped(FALSE, {ScaleMicro(Diag(1, 2, 1))}, {1}, {IntGrid(8)})
    \/ Export

Spec == InitCD /\ [][Next]_vars

\* Construction over every kind of argument, and export.
NextBuild ==
    \/ Construct(SmallStructs, TRUE, {1, 13}, Recognized \cup Unrecognized \cup {EmptyName})
    \/ Reorient
    \/ Export

SpecBuild == InitCD /\ [][NextBuild]_vars

\* One transformation of a constructed aggregate, over every kind of argument.
NextTransform ==
    \/ Construct(CubicStructs, FALSE, {13}, {VaspScheme})
    \/ GetTransformed(TRUE, WideMats, {0, 1}, WideGrids)
    \/ GetReshaped(TRUE, SmallMats, {0, 1}, WideGrids)

SpecTransform == InitCD /\ [][NextTransform]_vars

HeaderLines ==
    {<<"AUG", " ", "OCC", " ", "1", " ", "4", "\n">>,
     <<"AUG", " ", "OCC", " ", " ", "2", " ", "3", "3", "\n">>,
     <<"AUG", " ", "OCC", " ", "1", " ", "1", "0", "0", "0", "\n">>}

DataLines ==
    {<<"0", ".", "1", " ", "0", ".", "2", "\n">>, <<" ", "0", ".", "3", "\n">>}

RECURSIVE SeqsUpTo(_, _)
SeqsUpTo(S, n) ==
    IF n = 0 THEN {<<>>}
    ELSE LET R == SeqsUpTo(S, n - 1)
         IN  R \cup {Append(r, x) : r \in {q \in R : Len(q) = n - 1}, x \in S}

InitAug ==
    /\ structs = <<>>
    /\ aggs = <<>>
    /\ given = NoGiven
    /\ call = NoCall
    /\ ncalls = 0
    /\ \E d \in SeqsUpTo(HeaderLines \cup DataLines, MaxLines), f \in 1..MaxFactor :
         aug = [pc |-> "start", data_aug |-> d, factor |-> f, err |-> "ok", res |-> <<>>]

NextAug == MultiplyAug

SpecAug == InitAug /\ [][NextAug]_vars

(***************************************************************************)
(* Properties.                                                             *)
(***************************************************************************)
IsVolumeScheme(n) == ~n.isNone /\ Len(n.s) > 0 /\ n.s[1] \in {"v", "V"}

IsNoneScheme(n) == n.isNone \/ (Len(n.s) > 0 /\ n.s[1] \in {"n", "N"})

IsTransform(op) == op \in {"get_transformed", "get_reshaped"}

\* The export of the constructed aggregate has been made.
RootExported == call.op = "to_Chgcar" /\ call.src = 1 /\ call.err = "ok"

SameKeysAndShapes(data, pgrids) ==
    /\ Len(data) = Len(pgrids)
    /\ \A j \in 1..Len(pgrids) :
         /\ data[j].k = pgrids[j].k
         /\ data[j].v.shape = pgrids[j].v.grid_data.shape

C2_NoneExportIdentity ==
    (RootExported /\ IsNoneScheme(given.normalization)) =>
        /\ SameKeysAndShapes(call.exported, given.pgrids)
        /\ \A j \in 1..Len(given.pgrids) :
             call.exported[j].v.val = given.pgrids[j].v.grid_data.val

Mismatched(j) == ~allclose(LatticeMatrix(given.structure), given.pgrids[j].v.lattice)

\* C3: constructing from a non-empty mapping in which some grid's lattice, at
\* any position, differs from the structure's beyond the tolerance fails with
\* the lattices-are-not-identical error before any grid is normalized (the
\* mapping is left as it was given, and no aggregate exists); when every grid
\* matches, construction does not raise that error.
C3_LatticeInvariant ==
    call.op = "ChargeDensity" =>
        IF \E j \in 1..Len(given.pgrids) : Mismatched(j)
        THEN call.err = "ValueError" /\ call.pgrids_after = given.pgrids /\ aggs = <<>>
        ELSE call.err # "ValueError"

\* C3's case: the first grid matches, the second does not, and the call failed.
C3_Witness ==
    /\ call.op = "ChargeDensity"
    /\ Len(given.pgrids) = 2
    /\ ~Mismatched(1)
    /\ given.pgrids[1].v.lattice # LatticeMatrix(given.structure)
    /\ Mismatched(2)
    /\ call.err = "ValueError"

\* C7: starting from an aggregate constructed with the volume-scaled scheme,
\* the values held by it and by every aggregate derived from it are the stored
\* values divided once, by the volume of the original cell; a derived aggregate
\* keeps the declared scheme, and export multiplies the held values by the
\* volume of the exported aggregate's current cell.
C7_NormalizedOnce ==
    IsVolumeScheme(given.normalization) =>
        /\ \A i \in 1..Len(aggs) :
             /\ aggs[i].normalization = given.normalization
             /\ Len(aggs[i].pgrids) = Len(given.pgrids)
             /\ \A j \in 1..Len(given.pgrids) :
                  aggs[i].pgrids[j].v.val =
                      FDiv(given.pgrids[j].v.grid_data.val, volume(given.structure))
        /\ (call.op = "to_Chgcar" =>
              \A j \in 1..Len(given.pgrids) :
                  call.exported[j].v.val =
                      FMul(aggs[call.src].pgrids[j].v.val,
                           volume(structs[aggs[call.src].structure])))

\* C7's case: an aggregate derived from a derived one, in a cell of another
\* volume than the original, holding a grid.
C7_Witness ==
    /\ IsVolumeScheme(given.normalization)
    /\ Len(aggs) = 3
    /\ Len(given.pgrids) > 0
    /\ CellVolume(given.structure) > 1
    /\ CellVolume(structs[aggs[3].structure]) > CellVolume(structs[aggs[2].structure])
    /\ CellVolume(structs[aggs[2].structure]) > CellVolume(given.structure)

IsUnrecognized(n) == ~n.isNone /\ Len(n.s) > 0 /\ lower(n.s[1]) \notin {"n", "v"}

\* C8: constructing an aggregate with a scheme name whose first character is
\* none of n, N, v, V fails, for every pgrids mapping including an empty one
\* (with the unsupported-scheme error when the lattices agree), and no aggregate
\* with such a scheme exists.
C8_UnrecognizedRejected ==
    /\ (call.op = "ChargeDensity" /\ IsUnrecognized(given.normalization)) =>
          /\ call.err # "ok"
          /\ (\A j \in 1..Len(given.pgrids) : ~Mismatched(j)) =>
                call.err = "NotImplementedError"
    /\ \A i \in 1..Len(aggs) : ~IsUnrecognized(aggs[i].normalization)

IsInteger(x) == x % Micro = 0

\* r is the integer nearest to x (in millionths), the even one at a tie.
IsNearestEven(r, x) ==
    /\ 2 * Abs(x - r * Micro) <= Micro
    /\ 2 * Abs(x - r * Micro) = Micro => r % 2 = 0

\* What C5 says of the rounded matrix: every entry is the nearest integer (1.5
\* becomes 2), the same matrix replicates the structure and resamples the
\* grids, and a matrix that drew the warning does not make the call raise.
C5_RoundedMatrixUsed ==
    /\ \A i \in 1..3 : \A j \in 1..3 : IsNearestEven(call.sc_struct[i][j], call.sc_mat[i][j])
    /\ call.sc_grid = call.sc_struct
    /\ call.sc_mat[1][1] = 1500000 => call.sc_struct[1][1] = 2
    /\ call.warned => (call.err = "ok" \/ ~call.grid_arg.isInt)
    /\ call.err = "ok" =>
         \A j \in 1..3 :
             structs[aggs[call.new].structure].abc[j] =
                 call.sc_struct[j][j] * structs[aggs[call.src].structure].abc[j]

C6_SourceUntouched ==
    [][(IsTransform(call'.op) /\ ncalls' = ncalls + 1) =>
          /\ SubSeq(aggs', 1, Len(aggs)) = aggs
          /\ SubSeq(structs', 1, Len(structs)) = structs
          /\ aggs'[call'.src] = aggs[call'.src]
          /\ structs'[aggs[call'.src].structure] = structs[aggs[call'.src].structure]]_vars

\* C6's case: a transformation with a non-zero origin shift and a replicating
\* matrix returned an aggregate whose structure differs from the source's.
C6_Witness ==
    /\ IsTransform(call.op)
    /\ call.err = "ok"
    /\ call.origin = 1
    /\ structs[aggs[call.new].structure].frac # structs[aggs[call.src].structure].frac
    /\ structs[aggs[call.new].structure].nsites > structs[aggs[call.src].structure].nsites

IsCubic(s) == s.abc[1] = s.abc[2] /\ s.abc[2] = s.abc[3]

\* C9: with a single target point count N, every derived axis count is at
\* least 1, and for a cubic new cell with N = k^3 each axis gets k points
\* whatever the side of the cell (k - 1 is let pass for a cube root computed
\* just below k).
C9_CubicCounts ==
    (IsTransform(call.op) /\ call.err = "ok" /\ call.grid_arg.isInt) =>
        /\ \A i \in 1..3 : call.grid_out[i] >= 1
        /\ IsCubic(structs[aggs[call.new].structure]) =>
             \A k \in 1..4 :
                 k * k * k = call.grid_arg.n =>
                     \A i \in 1..3 : call.grid_out[i] \in {k, Max(k - 1, 1)}

\* The blocks of a line sequence: each starts at a line with the marker.
RECURSIVE BlocksFrom(_, _, _)
BlocksFrom(lines, i, acc) ==
    IF i > Len(lines) THEN acc
    ELSE IF HasMarker(lines[i]) \/ acc = <<>>
         THEN BlocksFrom(lines, i + 1, Append(acc, <<lines[i]>>))
         ELSE BlocksFrom(lines, i + 1,
                         [acc EXCEPT ![Len(acc)] = Append(@, lines[i])])

Blocks(lines) == BlocksFrom(lines, 1, <<>>)

\* A block read back: the last two fields of its header, and its other lines.
ReadBlock(b) ==
    LET f == split(b[1])
    IN  [index |-> IF Len(f) >= 2 THEN f[Len(f) - 1] ELSE <<>>,
         last  |-> IF Len(f) >= 1 THEN f[Len(f)] ELSE <<>>,
         data  |-> Tail(b)]

IsBlockInput(lines) == Len(lines) >= 1 /\ HasMarker(lines[1])

\* C4: for an input of one or more blocks and a factor >= 1, the output has
\* factor times as many blocks, in input order with the copies of a block
\* contiguous; the k-th header carries index k, keeps the last field of its
\* source header, and is followed by the source block's other lines verbatim.
C4_Renumbering ==
    (aug.pc = "done" /\ IsBlockInput(aug.data_aug)) =>
        LET src == Blocks(aug.data_aug)
            out == Blocks(aug.res)
        IN  /\ aug.err = "ok"
            /\ Len(out) = aug.factor * Len(src)
            /\ \A k \in 1..Len(out) :
                 LET b == ReadBlock(out[k])
                     a == ReadBlock(src[((k - 1) \div aug.factor) + 1])
                 IN  /\ HasMarker(out[k][1])
                     /\ b.index = Digits(k)
                     /\ b.last = a.last
                     /\ b.data = a.data

\* C10: for the empty input and every factor >= 1, multiply_aug completes
\* without failing and returns the empty sequence.
C10_EmptyInput ==
    (aug.pc = "done" /\ aug.data_aug = <<>>) => (aug.err = "ok" /\ aug.res = <<>>)

====
